---- MODULE Spec2Model ----
(***************************************************************************)
(* A model of the cart service: the persisted Cart and CartItem rows, the  *)
(* constraints the database enforces on them, and the request handlers of  *)
(* cart/api_v1/views.py with the helpers of cart/cart_manager.py and       *)
(* cart/api_v1/serializers.py.                                             *)
(*                                                                         *)
(* Every request is served by a worker.  A handler is a sequence of        *)
(* database statements; there is no transaction around a handler, so one   *)
(* step of the model is one statement (with the purely local computation   *)
(* before it) and the statements of two workers interleave freely.         *)
(* Model.save() writes the whole row by primary key from the in-memory     *)
(* instance and inserts the row when the update matched nothing.           *)
(*                                                                         *)
(* Two smaller specifications stand beside the requests: PricingSpec, the  *)
(* total of one cart as cart/models.py computes it over the requests that  *)
(* render it, and LookupSpec, the product and user lookups of              *)
(* cart/service.py with their retry decorator and cache.                   *)
(* ReturnSpec runs the same requests as Spec from the tables of a user who *)
(* closed a cart and began another.                                        *)
(***************************************************************************)
EXTENDS Integers, Sequences, FiniteSets, TLC

\* ------------------------------------------------------------------ bounds

\* Requests served in one behaviour, cart rows ever created, item rows ever
\* created.
MaxOps == 2
MaxCarts == 3
MaxItems == 4
\* The largest stock the product service reports, the largest amount of a
\* cart's tax, shipping and discount, and the item rows of a priced cart.
MaxStock == 2
MaxAmount == 3
MaxLines == 2

\* ----------------------------------------------------------------- domains

None == "None"
Absent == "Absent"
Workers == {"w1", "w2"}
Users == {"u1", "u2"}
Sessions == {"k1", "k2"}
Products == {"p1", "p2"}
\* Quantities a client may send with add-item, and in an item of a cart update.
QtyInputs == {-1, 0, 1, 2}
SpecQuantities == {3}
\* The price the product service reports; it is copied into the item row.
ProductPrice == "price"

NoCart == [id |-> 0, user_id |-> None, session_key |-> None, status |-> "none"]
NoItem == [id |-> 0, cart |-> 0, product_id |-> None, quantity |-> 0,
           price_at_addition |-> None]
NoPre == [ok |-> FALSE, carts |-> {}, items |-> {}, sole |-> {}]
NoStart == [carts |-> {}, items |-> {}]

VARIABLES
    carts,      \* the Cart table: a set of rows
    items,      \* the CartItem table: a set of rows
    nextCart,   \* the next fresh cart id (uuid4: never reused)
    nextItem,   \* the next fresh item id; ids grow with added_at
    pc,         \* each worker's position in its handler
    req,        \* each worker's request and the handler's local variables
    result,     \* each worker's response
    ops,        \* requests started so far
    pre,        \* history: the tables when the worker's request started,
                \*   dropped as soon as another worker writes
    sole,       \* history: ids of item rows created by one add-item and
                \*   not written since
    priced,     \* one cart with its money fields and the total last rendered
    cache,      \* lru_cache of ProductService.get_product: product -> value
    upstream,   \* the product service's catalogue: product -> listing
    call,       \* the product or user lookup in progress, or the last one
    prev        \* history: the lookup before this one

\* The variables of the pricing and lookup specifications; the requests of
\* Spec leave them alone.
aside == <<priced, cache, upstream, call, prev>>
vars == <<carts, items, nextCart, nextItem, pc, req, result, ops, pre, sole,
          priced, cache, upstream, call, prev>>

\* ------------------------------------------------------------- constraints

\* unique_together = [('user_id', 'status')]: the condition `if 'user_id'` is
\* a non-empty string and so always true.  NULL user ids never collide.
CartUniqueNever(cs) == TRUE
CartUniqueOK(cs) ==
    \A c1 \in cs : \A c2 \in cs :
        (c1.id # c2.id /\ c1.user_id # None /\ c1.user_id = c2.user_id)
            => c1.status # c2.status

\* unique_together = [('cart', 'product_id')]
ItemUniqueNever(is) == TRUE
ItemUniqueOK(is) ==
    \A i1 \in is : \A i2 \in is :
        (i1.id # i2.id /\ i1.cart = i2.cart) => i1.product_id # i2.product_id

\* cart = ForeignKey(Cart): the row's cart exists.  price_at_addition is a
\* DecimalField without null=True and without a default.
ItemRowOK(cs, i) ==
    /\ \E c \in cs : c.id = i.cart
    /\ i.price_at_addition # None

\* Model.save() of a Cart instance: update by primary key, insert when no row
\* has that key; the database rejects the statement with IntegrityError.
CartSaved(row) == {c \in carts : c.id # row.id} \cup {row}
CartSaveOK(row) == CartUniqueOK(CartSaved(row))

\* Model.save() / objects.create() of a CartItem instance.
ItemSaved(row) == {i \in items : i.id # row.id} \cup {row}
ItemSaveOK(row) == ItemRowOK(carts, row) /\ ItemUniqueOK(ItemSaved(row))

\* Cart.delete(): the row and, by on_delete=CASCADE, its items.
CartsWithout(id) == {c \in carts : c.id # id}
ItemsWithout(id) == {i \in items : i.cart # id}

\* Meta.ordering = ['-added_at']: newest row first.
RECURSIVE NewestFirst(_)
NewestFirst(S) ==
    IF S = {} THEN <<>>
    ELSE LET m == CHOOSE r \in S : \A o \in S : o.id <= r.id
         IN  <<m>> \o NewestFirst(S \ {m})

ItemsOf(is, cartId) == {i \in is : i.cart = cartId}
RowsFor(is, cartId, p) == {i \in is : i.cart = cartId /\ i.product_id = p}

\* The quantity of product p held by a cart: the sum over its rows.
RECURSIVE SumQty(_)
SumQty(S) ==
    IF S = {} THEN 0
    ELSE LET r == CHOOSE x \in S : TRUE IN r.quantity + SumQty(S \ {r})
Qty(is, cartId, p) == SumQty(RowsFor(is, cartId, p))

\* --------------------------------------------------------- bookkeeping

BlankReq ==
    [op |-> None, user |-> None, session |-> None, product |-> None,
     quantity |-> 0, target |-> 0,
     data |-> [user_id |-> Absent, session_key |-> Absent,
               has_items |-> FALSE, items |-> <<>>],
     cart |-> NoCart, cart_created |-> FALSE, cart_conflict |-> FALSE,
     scart |-> NoCart, created |-> FALSE, item |-> NoItem,
     list |-> <<>>, cur |-> <<>>, seen |-> {}, added |-> {},
     start |-> NoStart, left |-> NoStart]

Idle(w) == pc[w] \in {"idle", "done"}
CanStart(w) == Idle(w) /\ ops < MaxOps

\* A request begins: the worker's locals are fresh.  The first step of every
\* handler reads and does not write.  `start` is history: the tables as the
\* request found them.
Begin(w, r) ==
    /\ ops' = ops + 1
    /\ req' = [req EXCEPT
                 ![w] = [r EXCEPT !.start = [carts |-> carts, items |-> items]]]
    /\ pre' = [pre EXCEPT ![w] = [ok |-> TRUE, carts |-> carts,
                                  items |-> items, sole |-> sole]]
    /\ UNCHANGED <<carts, items, sole, nextCart, nextItem>>
    /\ UNCHANGED aside

\* The response is sent.
Respond(w, res) ==
    /\ pc' = [pc EXCEPT ![w] = "done"]
    /\ result' = [result EXCEPT ![w] = res]

Goto(w, label) ==
    /\ pc' = [pc EXCEPT ![w] = label]
    /\ UNCHANGED result

\* A statement of worker w that writes the tables.
Write(w, cs, is, so) ==
    /\ carts' = cs
    /\ items' = is
    /\ sole' = so
    /\ pre' = [x \in Workers |-> IF x = w THEN pre[x] ELSE NoPre]
    /\ UNCHANGED aside

NoWrite == UNCHANGED <<carts, items, sole, pre, aside>>

\* ------------------------------------------------------------------ pricing

\* A money value of an in-memory instance: the Python type it has and its
\* amount.  A DecimalField read from the database or validated by a
\* serializer holds a Decimal; a field of an instance that was constructed
\* and saved, never read back, holds its declared default, the float 0.00.
Whole(n) == [type |-> "int", value |-> n]
Float(n) == [type |-> "float", value |-> n]
Dec(n) == [type |-> "Decimal", value |-> n]
TypeError == [type |-> "TypeError", value |-> 0]

\* Python's + and - on numbers: int widens to the other operand's type;
\* Decimal and float do not mix (TypeError: unsupported operand types).
Mixes(a, b) == {a.type, b.type} = {"Decimal", "float"}
Wider(a, b) == IF a.type = "int" THEN b.type ELSE a.type
Plus(a, b) ==
    IF a = TypeError \/ b = TypeError \/ Mixes(a, b) THEN TypeError
    ELSE [type |-> Wider(a, b), value |-> a.value + b.value]
Minus(a, b) ==
    IF a = TypeError \/ b = TypeError \/ Mixes(a, b) THEN TypeError
    ELSE [type |-> Wider(a, b), value |-> a.value - b.value]

\* CartItem.total_price: self.quantity * self.price_at_addition
total_price(item) ==
    [type |-> item.price_at_addition.type,
     value |-> item.quantity * item.price_at_addition.value]

\* Cart.subtotal: sum(item.total_price for item in self.items.all())
RECURSIVE SumPrices(_)
SumPrices(lines) ==
    IF lines = {} THEN Whole(0)
    ELSE LET l == CHOOSE x \in lines : TRUE
         IN  Plus(SumPrices(lines \ {l}), total_price(l))
subtotal(cart) == SumPrices(cart.lines)

\* Cart.total: subtotal + tax_amount + shipping_cost - discount_amount, then
\* max(0, total), which returns its first argument unless the second is
\* greater.
total(cart) ==
    LET t == Minus(Plus(Plus(subtotal(cart), cart.tax_amount),
                        cart.shipping_cost), cart.discount_amount)
    IN  IF t = TypeError THEN TypeError
        ELSE IF t.value > 0 THEN t ELSE Whole(0)

\* The instance a handler serializes: the adjustments of the stored carts of
\* this model are the defaults, held as floats by an instance this request
\* created and as Decimals by one it read; the lines are the cart's item
\* rows, read from the database, at one currency unit each.
Instance(c, created, is) ==
    [tax_amount |-> IF created THEN Float(0) ELSE Dec(0),
     shipping_cost |-> IF created THEN Float(0) ELSE Dec(0),
     discount_amount |-> IF created THEN Float(0) ELSE Dec(0),
     lines |-> {[id |-> i.id, quantity |-> i.quantity,
                 price_at_addition |-> Dec(1)] : i \in ItemsOf(is, c.id)}]

\* CartSerializer(cart).data reads cart.total; an exception of the property
\* is the response.
Rendered(cart) == IF total(cart) = TypeError THEN "TypeError" ELSE "ok"

\* ------------------------------------------------- CartManager.get_or_create

\* The lookup of Cart.objects.get_or_create: for a user
\* (user_id=user_id, status='active'), for a session
\* (session_key=session_key, user_id=None, status='active').
ActiveCartsFor(cs, user, session) ==
    IF user # None
    THEN {c \in cs : c.user_id = user /\ c.status = "active"}
    ELSE {c \in cs : c.session_key = session /\ c.user_id = None
                     /\ c.status = "active"}

\* The handler step after get_or_create returned.
AfterCart(op) == IF op = "add" THEN "add_product" ELSE "merge_lookup"

\* get_or_create, first statement: get(**kwargs).
GetCart(w, r) ==
    LET found == ActiveCartsFor(carts, r.user, r.session) IN
    /\ Begin(w, IF Cardinality(found) = 1
                THEN [r EXCEPT !.cart = CHOOSE c \in found : TRUE]
                ELSE r)
    /\ IF found = {} THEN Goto(w, "goc_create")
       ELSE IF Cardinality(found) = 1 THEN Goto(w, AfterCart(r.op))
       ELSE Respond(w, "MultipleObjectsReturned")

\* get_or_create, second statement: create(**params); the user cart gets
\* defaults={'session_key': None}.
GocCreate(w) ==
    /\ pc[w] = "goc_create"
    /\ nextCart <= MaxCarts
    /\ LET r == req[w]
           new == [id |-> nextCart, user_id |-> r.user,
                   session_key |-> IF r.user # None THEN None ELSE r.session,
                   status |-> "active"]
       IN  IF CartSaveOK(new)
           THEN /\ Write(w, CartSaved(new), items, sole)
                /\ nextCart' = nextCart + 1
                /\ req' = [req EXCEPT ![w].cart = new,
                                      ![w].cart_created = TRUE]
                /\ Goto(w, AfterCart(r.op))
           ELSE /\ NoWrite
                /\ UNCHANGED nextCart
                /\ req' = [req EXCEPT ![w].cart_conflict = TRUE]
                /\ Goto(w, "goc_reget")
    /\ UNCHANGED <<nextItem, ops>>

\* get_or_create, after IntegrityError: get(**kwargs) once more, and the
\* IntegrityError is raised again when that finds nothing.
GocReget(w) ==
    /\ pc[w] = "goc_reget"
    /\ LET r == req[w]
           found == ActiveCartsFor(carts, r.user, r.session)
       IN  IF Cardinality(found) = 1
           THEN /\ req' = [req EXCEPT ![w].cart = CHOOSE c \in found : TRUE]
                /\ Goto(w, AfterCart(r.op))
           ELSE /\ UNCHANGED req
                /\ Respond(w, "IntegrityError")
    /\ NoWrite
    /\ UNCHANGED <<nextCart, nextItem, ops>>

\* ------------------------------------------------------------ AddToCartView

\* AddToCartSerializer.quantity: IntegerField(min_value=1).
QuantityFromZero(q) == q >= 0
QuantityValid(q) == q >= 1

AddRequesters ==
    {[user |-> u, session |-> None] : u \in Users}
        \cup {[user |-> None, session |-> k] : k \in Sessions \cup {None}}

\* request.session.create(): a key no stored cart carries.
FreshSessions == {k \in Sessions : \A c \in carts : c.session_key # k}

\* AddToCartView.create up to the first statement of get_cart: validation,
\* then (a user) UserService.user_exists, (anonymous) the session key, then
\* the lookup of get_or_create.
StartAdd(w) ==
    /\ CanStart(w)
    /\ \E who \in AddRequesters, p \in Products, q \in QtyInputs :
         LET r == [BlankReq EXCEPT !.op = "add", !.user = who.user,
                                   !.session = who.session, !.product = p,
                                   !.quantity = q]
         IN  IF ~QuantityValid(q)
             THEN /\ Begin(w, r)
                  /\ Respond(w, "InvalidInput")
             ELSE \/ /\ who.user # None
                     /\ \/ GetCart(w, r)
                        \/ /\ Begin(w, r)
                           /\ Respond(w, "UserDoesNotExist")
                  \/ /\ who.user = None
                     /\ who.session # None
                     /\ GetCart(w, r)
                  \/ /\ who.user = None
                     /\ who.session = None
                     /\ \E k \in FreshSessions :
                          GetCart(w, [r EXCEPT !.session = k])

\* ProductService.validate_product_availability and get_product.
AddProduct(w) ==
    /\ pc[w] = "add_product"
    /\ \/ Goto(w, "uoc_get")
       \/ Respond(w, "ProductUnavailable")
    /\ NoWrite
    /\ UNCHANGED <<nextCart, nextItem, req, ops>>

\* update_or_create found the row: every default is set on it (quantity
\* included) and it is saved, under the row lock of select_for_update.
Overwritten(row, q) == [row EXCEPT !.quantity = q, !.price_at_addition = ProductPrice]

UocFound(w, row) ==
    LET r == req[w]
        new == Overwritten(row, r.quantity)
    IN  /\ Write(w, carts, ItemSaved(new), sole \ {row.id})
        /\ req' = [req EXCEPT ![w].item = new]
        /\ Goto(w, "add_incr")

\* update_or_create, first statement: select_for_update().get(**kwargs).
UocGet(w) ==
    /\ pc[w] = "uoc_get"
    /\ LET r == req[w]
           found == RowsFor(items, r.cart.id, r.product)
       IN  IF found = {}
           THEN /\ NoWrite /\ UNCHANGED req /\ Goto(w, "uoc_create")
           ELSE IF Cardinality(found) = 1
           THEN UocFound(w, CHOOSE i \in found : TRUE)
           ELSE /\ NoWrite /\ UNCHANGED req
                /\ Respond(w, "MultipleObjectsReturned")
    /\ UNCHANGED <<nextCart, nextItem, ops>>

\* update_or_create, second statement: create(**params) in a savepoint.
UocCreate(w) ==
    /\ pc[w] = "uoc_create"
    /\ nextItem <= MaxItems
    /\ LET r == req[w]
           new == [id |-> nextItem, cart |-> r.cart.id,
                   product_id |-> r.product, quantity |-> r.quantity,
                   price_at_addition |-> ProductPrice]
       IN  IF ItemSaveOK(new)
           THEN /\ Write(w, carts, ItemSaved(new), sole \cup {new.id})
                /\ nextItem' = nextItem + 1
                /\ req' = [req EXCEPT ![w].item = new, ![w].created = TRUE]
                /\ Respond(w, Rendered(Instance(r.cart, r.cart_created,
                                                ItemSaved(new))))
           ELSE /\ NoWrite
                /\ UNCHANGED <<nextItem, req>>
                /\ Goto(w, "uoc_reget")
    /\ UNCHANGED <<nextCart, ops>>

\* update_or_create, after IntegrityError: the locked get once more.
UocReget(w) ==
    /\ pc[w] = "uoc_reget"
    /\ LET r == req[w]
           found == RowsFor(items, r.cart.id, r.product)
       IN  IF Cardinality(found) = 1
           THEN UocFound(w, CHOOSE i \in found : TRUE)
           ELSE /\ NoWrite /\ UNCHANGED req
                /\ Respond(w, "IntegrityError")
    /\ UNCHANGED <<nextCart, nextItem, ops>>

\* if not created: item.quantity += quantity; item.save()
AddIncr(w) ==
    /\ pc[w] = "add_incr"
    /\ LET r == req[w]
           new == [r.item EXCEPT !.quantity = r.item.quantity + r.quantity]
       IN  IF ItemSaveOK(new)
           THEN /\ Write(w, carts, ItemSaved(new), sole \ {new.id})
                /\ req' = [req EXCEPT ![w].item = new]
                /\ Respond(w, Rendered(Instance(r.cart, r.cart_created,
                                                ItemSaved(new))))
           ELSE /\ NoWrite
                /\ UNCHANGED req
                /\ Respond(w, "IntegrityError")
    /\ UNCHANGED <<nextCart, nextItem, ops>>

\* ----------------------------------------------------------- MergeCartsView

MergeRequesters ==
    {[user |-> u, session |-> k] :
        u \in Users \cup {None}, k \in Sessions \cup {None}}

\* `if not session_key: return Response(...)`
NoSessionCheck(k) == TRUE
HasSession(k) == k # None

\* Cart.objects.get(session_key=session_key, status='active')
SessionCarts(k) == {c \in carts : c.session_key = k /\ c.status = "active"}

\* MergeCartsView.post up to the first statement of get_user_cart.
StartMerge(w) ==
    /\ CanStart(w)
    /\ \E who \in MergeRequesters :
         LET r == [BlankReq EXCEPT !.op = "merge", !.user = who.user,
                                   !.session = who.session]
         IN  IF who.user = None
             THEN /\ Begin(w, r)
                  /\ Respond(w, "NotAuthenticated")
             ELSE IF ~HasSession(who.session)
             THEN /\ Begin(w, r)
                  /\ Respond(w, "NoSessionCart")
             ELSE GetCart(w, r)

\* session_cart = Cart.objects.get(...); DoesNotExist is caught,
\* MultipleObjectsReturned is not.
MergeLookup(w) ==
    /\ pc[w] = "merge_lookup"
    /\ LET found == SessionCarts(req[w].session) IN
       IF found = {}
       THEN /\ UNCHANGED req /\ Respond(w, "NoSessionCart")
       ELSE IF Cardinality(found) = 1
       THEN /\ req' = [req EXCEPT ![w].scart = CHOOSE c \in found : TRUE]
            /\ Goto(w, "merge_fetch")
       ELSE /\ UNCHANGED req /\ Respond(w, "MultipleObjectsReturned")
    /\ NoWrite
    /\ UNCHANGED <<nextCart, nextItem, ops>>

\* Where merge_carts goes with these session items left.
MergeLoop(l) == IF l = <<>> THEN "merge_delete" ELSE "merge_get"

\* merge_carts: `for item in session_cart.items.all()` reads the rows once.
MergeFetch(w) ==
    /\ pc[w] = "merge_fetch"
    /\ LET l == NewestFirst(ItemsOf(items, req[w].scart.id)) IN
       /\ req' = [req EXCEPT ![w].list = l]
       /\ Goto(w, MergeLoop(l))
    /\ NoWrite
    /\ UNCHANGED <<nextCart, nextItem, ops>>

\* user_cart.items.get(product_id=item.product_id)
MergeGet(w) ==
    /\ pc[w] = "merge_get"
    /\ LET r == req[w]
           found == RowsFor(items, r.cart.id, Head(r.list).product_id)
       IN  IF found = {}
           THEN /\ UNCHANGED req /\ Goto(w, "merge_relink")
           ELSE IF Cardinality(found) = 1
           THEN /\ req' = [req EXCEPT ![w].item = CHOOSE i \in found : TRUE]
                /\ Goto(w, "merge_save")
           ELSE /\ UNCHANGED req /\ Respond(w, "MultipleObjectsReturned")
    /\ NoWrite
    /\ UNCHANGED <<nextCart, nextItem, ops>>

\* user_item.quantity += item.quantity
MergedKeepsSource(user_item, item) == item.quantity
MergedQuantity(user_item, item) == user_item.quantity + item.quantity

\* user_item.save()
MergeSave(w) ==
    /\ pc[w] = "merge_save"
    /\ LET r == req[w]
           item == Head(r.list)
           new == [r.item EXCEPT !.quantity = MergedQuantity(r.item, item)]
       IN  IF ItemSaveOK(new)
           THEN /\ Write(w, carts, ItemSaved(new), sole \ {new.id})
                /\ req' = [req EXCEPT ![w].list = Tail(r.list),
                                      ![w].added = r.added \cup {item.id}]
                /\ Goto(w, MergeLoop(Tail(r.list)))
           ELSE /\ NoWrite
                /\ UNCHANGED req
                /\ Respond(w, "IntegrityError")
    /\ UNCHANGED <<nextCart, nextItem, ops>>

\* except CartItem.DoesNotExist: item.cart = user_cart; item.save()
MergeRelink(w) ==
    /\ pc[w] = "merge_relink"
    /\ LET r == req[w]
           new == [Head(r.list) EXCEPT !.cart = r.cart.id]
       IN  IF ItemSaveOK(new)
           THEN /\ Write(w, carts, ItemSaved(new), sole \ {new.id})
                /\ req' = [req EXCEPT ![w].list = Tail(r.list)]
                /\ Goto(w, MergeLoop(Tail(r.list)))
           ELSE /\ NoWrite
                /\ UNCHANGED req
                /\ Respond(w, "IntegrityError")
    /\ UNCHANGED <<nextCart, nextItem, ops>>

\* session_cart.delete(), then the response with the user's cart.
MergeDelete(w) ==
    /\ pc[w] = "merge_delete"
    /\ LET id == req[w].scart.id IN
       /\ Write(w, CartsWithout(id), ItemsWithout(id),
                sole \ {i.id : i \in ItemsOf(items, id)})
       /\ Respond(w, Rendered(Instance(req[w].cart, req[w].cart_created,
                                       ItemsWithout(id))))
    /\ UNCHANGED <<nextCart, nextItem, req, ops>>

\* merge_carts runs in no transaction: every save is committed as it is
\* made, and a worker that stops inside the loop (it is killed, or loses its
\* database connection) leaves the statements it has made.  `left` is
\* history: the tables as it leaves them, kept when no other worker wrote
\* while the merge ran.
MergeAbort(w) ==
    /\ pc[w] \in {"merge_get", "merge_save", "merge_relink", "merge_delete"}
    /\ Respond(w, "Interrupted")
    /\ req' = [req EXCEPT ![w].left = IF pre[w].ok
                                       THEN [carts |-> carts, items |-> items]
                                       ELSE NoStart]
    /\ NoWrite
    /\ UNCHANGED <<nextCart, nextItem, ops>>

\* ----------------------------------------------------------- CartDetailView

\* The cart ids a client may ask for: every stored cart, and one that is not.
Targets == {c.id : c \in carts} \cup {0}

\* get_object's ownership check: an authenticated requester is compared by
\* user id, any other requester by session key.
Owns(c, user, session) ==
    IF user # None THEN c.user_id = user ELSE c.session_key = session

\* CartDetailView.get_object: the row by primary key, then the check.
Found(id, user, session) ==
    {c \in carts : c.id = id /\ Owns(c, user, session)}

\* GET carts/<pk>/
StartGet(w) ==
    /\ CanStart(w)
    /\ \E who \in AddRequesters, id \in Targets :
         LET r == [BlankReq EXCEPT !.op = "get", !.user = who.user,
                                   !.session = who.session, !.target = id]
             found == Found(id, who.user, who.session)
         IN  IF found = {}
             THEN /\ Begin(w, r) /\ Respond(w, "NotFound")
             ELSE /\ Begin(w, [r EXCEPT !.cart = CHOOSE c \in found : TRUE])
                  /\ Respond(w, "ok")

\* DELETE carts/<pk>/ up to get_object.
StartClose(w) ==
    /\ CanStart(w)
    /\ \E who \in AddRequesters, id \in Targets :
         LET r == [BlankReq EXCEPT !.op = "close", !.user = who.user,
                                   !.session = who.session, !.target = id]
             found == Found(id, who.user, who.session)
         IN  IF found = {}
             THEN /\ Begin(w, r) /\ Respond(w, "NotFound")
             ELSE /\ Begin(w, [r EXCEPT !.cart = CHOOSE c \in found : TRUE])
                  /\ Goto(w, "close_save")

\* perform_destroy: instance.status = 'abandoned'; instance.save()
CloseSave(w) ==
    /\ pc[w] = "close_save"
    /\ LET new == [req[w].cart EXCEPT !.status = "abandoned"] IN
       IF CartSaveOK(new)
       THEN /\ Write(w, CartSaved(new), items, sole)
            /\ req' = [req EXCEPT ![w].cart = new]
            /\ Respond(w, "ok")
       ELSE /\ NoWrite
            /\ UNCHANGED req
            /\ Respond(w, "IntegrityError")
    /\ UNCHANGED <<nextCart, nextItem, ops>>

\* The writable fields of CartSerializer that the model keeps: user_id,
\* session_key and the nested items (product_id and quantity of each).
ItemSpecs == [product_id : Products, quantity : SpecQuantities]
ItemSpecLists ==
    {<<>>} \cup {<<a>> : a \in ItemSpecs}
           \cup {<<a, b>> : a \in ItemSpecs, b \in ItemSpecs}
\* A payload sets the owner fields, each absent, null or a value; one that
\* carries items names its own user or session, as validate() demands.
OwnerPayloads ==
    {[user_id |-> u, session_key |-> k, has_items |-> FALSE, items |-> <<>>] :
        u \in Users \cup {None, Absent}, k \in Sessions \cup {None, Absent}}
ItemPayloads(who) ==
    {[user_id |-> IF who.user # None THEN who.user ELSE Absent,
      session_key |-> IF who.user # None THEN Absent ELSE who.session,
      has_items |-> TRUE, items |-> l] : l \in ItemSpecLists}
UpdatePayloads(who) == OwnerPayloads \cup ItemPayloads(who)

\* CartSerializer.validate: data.get('user_id') or data.get('session_key').
Truthy(v) == v # None /\ v # Absent
PayloadValid(d) == Truthy(d.user_id) \/ Truthy(d.session_key)

\* PUT/PATCH carts/<pk>/ up to get_object (which prefetches the items) and
\* the serializer's validation.
StartUpdate(w) ==
    /\ CanStart(w)
    /\ \E who \in AddRequesters, id \in Targets :
       \E d \in UpdatePayloads(who) :
         LET r == [BlankReq EXCEPT !.op = "update", !.user = who.user,
                                   !.session = who.session, !.target = id,
                                   !.data = d]
             found == Found(id, who.user, who.session)
         IN  IF found = {}
             THEN /\ Begin(w, [r EXCEPT !.data = BlankReq.data])
                  /\ Respond(w, "NotFound")
             ELSE IF ~PayloadValid(d)
             THEN /\ Begin(w, [r EXCEPT !.data = BlankReq.data])
                  /\ Respond(w, "InvalidInput")
             ELSE /\ Begin(w, [r EXCEPT !.cart = CHOOSE c \in found : TRUE,
                                        !.cur = NewestFirst(ItemsOf(items, id)),
                                        !.list = d.items])
                  /\ Goto(w, "upd_save")

\* update_cart_items, `for product_id, item in current_items.items()`:
\* the prefetched rows whose product the update did not name.
NothingUnnamed(cur, seen) == <<>>
Unnamed(cur, seen) == SelectSeq(cur, LAMBDA i : i.product_id \notin seen)

\* Where CartSerializer.update goes with these item specs left.
UpdNext(w, l, cur, seen) ==
    IF l # <<>> THEN Goto(w, "upd_item")
    ELSE IF Unnamed(cur, seen) # <<>> THEN Goto(w, "upd_delete")
    ELSE Respond(w, "ok")

\* CartSerializer.update: setattr of every validated field; instance.save()
UpdSave(w) ==
    /\ pc[w] = "upd_save"
    /\ LET r == req[w]
           d == r.data
           new == [r.cart EXCEPT
                     !.user_id = IF d.user_id = Absent THEN @ ELSE d.user_id,
                     !.session_key =
                         IF d.session_key = Absent THEN @ ELSE d.session_key]
       IN  IF CartSaveOK(new)
           THEN /\ Write(w, CartSaved(new), items, sole)
                /\ req' = [req EXCEPT ![w].cart = new]
                /\ IF d.has_items THEN UpdNext(w, r.list, r.cur, r.seen)
                   ELSE Respond(w, "ok")
           ELSE /\ NoWrite
                /\ UNCHANGED req
                /\ Respond(w, "IntegrityError")
    /\ UNCHANGED <<nextCart, nextItem, ops>>

\* The prefetched row of a product (current_items[product_id]).
CurrentItem(cur, p) ==
    LET at == {n \in 1..Len(cur) : cur[n].product_id = p} IN
    IF at = {} THEN NoItem ELSE cur[CHOOSE n \in at : \A m \in at : m <= n]

\* update_cart_items, one item spec: the prefetched row gets the spec's
\* fields and is saved; a product the cart does not hold is created from the
\* spec alone, which carries no price.
UpdItem(w) ==
    /\ pc[w] = "upd_item"
    /\ LET r == req[w]
           s == Head(r.list)
           old == CurrentItem(r.cur, s.product_id)
           new == IF old # NoItem
                  THEN [old EXCEPT !.quantity = s.quantity]
                  ELSE [id |-> nextItem, cart |-> r.cart.id,
                        product_id |-> s.product_id, quantity |-> s.quantity,
                        price_at_addition |-> None]
           seen == r.seen \cup {s.product_id}
       IN  IF ItemSaveOK(new)
           THEN /\ Write(w, carts, ItemSaved(new), sole \ {new.id})
                /\ nextItem' = IF old # NoItem THEN nextItem ELSE nextItem + 1
                /\ req' = [req EXCEPT ![w].list = Tail(r.list),
                                      ![w].seen = seen]
                /\ UpdNext(w, Tail(r.list), r.cur, seen)
           ELSE /\ NoWrite
                /\ UNCHANGED <<nextItem, req>>
                /\ Respond(w, "IntegrityError")
    /\ UNCHANGED <<nextCart, ops>>

\* update_cart_items, one unnamed row: item.delete()
UpdDelete(w) ==
    /\ pc[w] = "upd_delete"
    /\ LET r == req[w]
           gone == Head(Unnamed(r.cur, r.seen))
           seen == r.seen \cup {gone.product_id}
       IN  /\ Write(w, carts, {i \in items : i.id # gone.id}, sole \ {gone.id})
           /\ req' = [req EXCEPT ![w].seen = seen]
           /\ UpdNext(w, <<>>, r.cur, seen)
    /\ UNCHANGED <<nextCart, nextItem, ops>>

\* ------------------------------------------------------- a cart's total

\* `priced` is one stored cart: its tax_amount, shipping_cost and
\* discount_amount as the database holds them, its item rows, and the total
\* the last response carried.
NoTotal == [type |-> "none", value |-> 0]
Amounts == 0..MaxAmount
MoneyFields == {"tax_amount", "shipping_cost", "discount_amount"}
LineInputs == [quantity : {1, 2}, price : {1, 2}]
NewRow ==
    [tax_amount |-> 0, shipping_cost |-> 0, discount_amount |-> 0,
     lines |-> {}, total |-> NoTotal]

\* The instance of a cart read from the database: every DecimalField holds
\* a Decimal.
Loaded(p) ==
    [tax_amount |-> Dec(p.tax_amount), shipping_cost |-> Dec(p.shipping_cost),
     discount_amount |-> Dec(p.discount_amount), lines |-> p.lines]

\* The instance get_or_create built and saved in this request: the money
\* fields hold the declared default, default=0.00.
Built(p) ==
    [tax_amount |-> Float(0), shipping_cost |-> Float(0),
     discount_amount |-> Float(0), lines |-> p.lines]

\* The item row update_or_create inserts; the database returns its price as
\* a Decimal.
WithLine(p, l) ==
    [p EXCEPT !.lines = @ \cup {[id |-> Cardinality(@) + 1,
                                 quantity |-> l.quantity,
                                 price_at_addition |-> Dec(l.price)]}]

\* AddToCartView.create for an owner without a cart: get_cart creates the
\* cart, the item is inserted, and the response is rendered from the
\* instance get_cart returned.
AddToNewCart ==
    /\ priced = NewRow
    /\ \E l \in LineInputs :
         LET p == WithLine(priced, l)
         IN  priced' = [p EXCEPT !.total = total(Built(p))]
    /\ UNCHANGED <<carts, items, nextCart, nextItem, pc, req, result, ops,
                   pre, sole, cache, upstream, call, prev>>

\* AddToCartView.create for an owner whose cart is stored: get_cart reads it.
AddToStoredCart ==
    /\ Cardinality(priced.lines) < MaxLines
    /\ \E l \in LineInputs :
         LET p == WithLine(priced, l)
         IN  priced' = [p EXCEPT !.total = total(Loaded(p))]
    /\ UNCHANGED <<carts, items, nextCart, nextItem, pc, req, result, ops,
                   pre, sole, cache, upstream, call, prev>>

\* PATCH carts/<pk>/ with one money field: a DecimalField with
\* MinValueValidator(0); get_object reads the cart, update sets the field and
\* saves, and the response is rendered from that instance.
PatchMoney ==
    /\ \E f \in MoneyFields, a \in Amounts :
         LET p == [priced EXCEPT ![f] = a]
         IN  /\ priced[f] # a
             /\ priced' = [p EXCEPT !.total = total(Loaded(p))]
    /\ UNCHANGED <<carts, items, nextCart, nextItem, pc, req, result, ops,
                   pre, sole, cache, upstream, call, prev>>

\* GET carts/<pk>/
Retrieve ==
    /\ priced.total # total(Loaded(priced))
    /\ priced' = [priced EXCEPT !.total = total(Loaded(priced))]
    /\ UNCHANGED <<carts, items, nextCart, nextItem, pc, req, result, ops,
                   pre, sole, cache, upstream, call, prev>>

\* ------------------------------------------------- ProductService, UserService

\* BaseService.MAX_RETRIES, the bound of stop_after_attempt.
MAX_RETRIES == 3

\* What one HTTP request meets: a reply of the service, a timeout, a
\* connection error, or a 200 reply whose body is not JSON.
Net == {"reply", "timeout", "unreachable", "garbled"}

\* The product service lists a product with a stock, or does not list it.
Unlisted == [listed |-> FALSE, stock |-> 0]
Listings == {Unlisted} \cup {[listed |-> TRUE, stock |-> n] : n \in 0..MaxStock}

\* What get_product returns: None or the product's JSON; RetryError is what
\* tenacity raises when the last attempt raised.  Uncached marks a product
\* lru_cache holds no value for.
NoneValue == [kind |-> "None", stock |-> 0]
ProductValue(n) == [kind |-> "product", stock |-> n]
RetryError == [kind |-> "RetryError", stock |-> 0]
Uncached == [kind |-> "uncached", stock |-> 0]

NoCall ==
    [pc |-> "idle", kind |-> None, product |-> None, quantity |-> 0,
     attempts |-> 0, cause |-> None, value |-> NoneValue, answer |-> None,
     actual |-> Unlisted]
NoPrev == [kind |-> None, cause |-> None, value |-> NoneValue, answer |-> None]
Summary(c) ==
    [kind |-> c.kind, cause |-> c.cause, value |-> c.value, answer |-> c.answer]

\* BaseService._make_request: the response, or None after a Timeout or any
\* other RequestException; raise_for_status makes a 404 reply one of those.
make_request(net, listed) ==
    IF net \in {"timeout", "unreachable"} THEN "None"
    ELSE IF ~listed THEN "None"
    ELSE "response"

\* Why a request gave what it gave.
Cause(net, listed) ==
    IF net = "reply" THEN (IF listed THEN "found" ELSE "missing") ELSE net

\* ProductService.validate_product_availability:
\* product and product.get('stock', 0) >= quantity
validate_product_availability(product, quantity) ==
    product.kind = "product" /\ product.stock >= quantity

\* What AddToCartView.create makes of the lookup: both failures of
\* validate_product_availability raise the same ValidationError; an exception
\* of get_product is the response.
ProductAnswer(value, quantity) ==
    IF value = RetryError THEN "RetryError"
    ELSE IF validate_product_availability(value, quantity) THEN "ok"
    ELSE "NotAvailable"

\* The product check of an add-item request begins: get_product is looked up
\* in the cache, and a cached value is returned without a request.
StartProductCheck ==
    /\ call.pc # "fetch"
    /\ \E p \in Products, q \in 1..MaxStock :
         LET c == [NoCall EXCEPT !.kind = "product", !.product = p,
                                 !.quantity = q, !.actual = upstream[p]]
         IN  IF cache[p] # Uncached
             THEN call' = [c EXCEPT !.pc = "done", !.cause = "cached",
                                    !.value = cache[p],
                                    !.answer = ProductAnswer(cache[p], q)]
             ELSE call' = [c EXCEPT !.pc = "fetch"]
    /\ prev' = Summary(call)
    /\ UNCHANGED <<cache, upstream>>
    /\ UNCHANGED <<carts, items, nextCart, nextItem, pc, req, result, ops,
                   pre, sole, priced>>

\* One attempt of get_product: _make_request, then
\* `response.json() if response else None`.  A returned value, None
\* included, is cached; an exception of response.json() is not, and tenacity
\* makes the next attempt, or raises RetryError after the last.
Attempt ==
    /\ call.pc = "fetch"
    /\ \E net \in Net :
         LET p == call.product
             n == call.attempts + 1
             response == make_request(net, upstream[p].listed)
             value == IF response = "None" THEN NoneValue
                      ELSE ProductValue(upstream[p].stock)
         IN  IF net = "garbled" /\ response # "None"
             THEN /\ call' = IF n < MAX_RETRIES
                             THEN [call EXCEPT !.attempts = n]
                             ELSE [call EXCEPT
                                     !.pc = "done", !.attempts = n,
                                     !.cause = "garbled", !.value = RetryError,
                                     !.answer = ProductAnswer(RetryError,
                                                              call.quantity)]
                  /\ UNCHANGED cache
             ELSE /\ call' = [call EXCEPT
                                !.pc = "done", !.attempts = n,
                                !.cause = Cause(net, upstream[p].listed),
                                !.value = value,
                                !.answer = ProductAnswer(value, call.quantity)]
                  /\ cache' = [cache EXCEPT ![p] = value]
    /\ UNCHANGED <<prev, upstream>>
    /\ UNCHANGED <<carts, items, nextCart, nextItem, pc, req, result, ops,
                   pre, sole, priced>>

\* UserService.user_exists: one _make_request, no call that can raise, so
\* tenacity never makes a second attempt.
UserExists ==
    /\ call.pc # "fetch"
    /\ \E net \in Net \ {"garbled"}, known \in BOOLEAN :
         call' = [NoCall EXCEPT
                    !.pc = "done", !.kind = "user", !.attempts = 1,
                    !.cause = Cause(net, known),
                    !.answer = IF make_request(net, known) = "response"
                               THEN "exists" ELSE "UserDoesNotExist"]
    /\ prev' = Summary(call)
    /\ UNCHANGED <<cache, upstream>>
    /\ UNCHANGED <<carts, items, nextCart, nextItem, pc, req, result, ops,
                   pre, sole, priced>>

\* The product service's own state changes between lookups.
StockChange ==
    /\ call.pc # "fetch"
    /\ \E p \in Products, s \in Listings :
         /\ upstream[p] # s
         /\ upstream' = [upstream EXCEPT ![p] = s]
    /\ UNCHANGED <<cache, call, prev>>
    /\ UNCHANGED <<carts, items, nextCart, nextItem, pc, req, result, ops,
                   pre, sole, priced>>

\* ------------------------------------------------------------ specification

\* The tables a behaviour starts from: empty, or holding the session cart of
\* k1 with p2 and p1 and the cart of u1 with p1, as three add-item requests
\* (k1: p2, k1: p1, u1: p1 twice the quantity) leave them.
EmptyTables ==
    [carts |-> {}, items |-> {}, nextCart |-> 1, nextItem |-> 1, sole |-> {}]
FilledTables ==
    [carts |-> {[id |-> 1, user_id |-> None, session_key |-> "k1",
                 status |-> "active"],
                [id |-> 2, user_id |-> "u1", session_key |-> None,
                 status |-> "active"]},
     items |-> {[id |-> 1, cart |-> 1, product_id |-> "p2", quantity |-> 1,
                 price_at_addition |-> ProductPrice],
                [id |-> 2, cart |-> 1, product_id |-> "p1", quantity |-> 1,
                 price_at_addition |-> ProductPrice],
                [id |-> 3, cart |-> 2, product_id |-> "p1", quantity |-> 2,
                 price_at_addition |-> ProductPrice]},
     nextCart |-> 3, nextItem |-> 4, sole |-> {1, 2, 3}]

\* A new cart row, an empty cache, an empty catalogue and no lookup made.
Aside ==
    /\ priced = NewRow
    /\ cache = [p \in Products |-> Uncached]
    /\ upstream = [p \in Products |-> Unlisted]
    /\ call = NoCall
    /\ prev = NoPrev

\* No request in progress on empty tables.
Quiet ==
    /\ carts = {} /\ items = {} /\ nextCart = 1 /\ nextItem = 1 /\ sole = {}
    /\ pc = [w \in Workers |-> "idle"]
    /\ req = [w \in Workers |-> BlankReq]
    /\ result = [w \in Workers |-> None]
    /\ pre = [w \in Workers |-> NoPre]
    /\ ops = 0

Init ==
    /\ \E t \in {EmptyTables, FilledTables} :
         /\ carts = t.carts
         /\ items = t.items
         /\ nextCart = t.nextCart
         /\ nextItem = t.nextItem
         /\ sole = t.sole
    /\ pc = [w \in Workers |-> "idle"]
    /\ req = [w \in Workers |-> BlankReq]
    /\ result = [w \in Workers |-> None]
    /\ pre = [w \in Workers |-> NoPre]
    /\ ops = 0
    /\ Aside

Next ==
    \E w \in Workers :
        \/ StartAdd(w)
        \/ GocCreate(w)
        \/ GocReget(w)
        \/ AddProduct(w)
        \/ UocGet(w)
        \/ UocCreate(w)
        \/ UocReget(w)
        \/ AddIncr(w)
        \/ StartMerge(w)
        \/ MergeLookup(w)
        \/ MergeFetch(w)
        \/ MergeGet(w)
        \/ MergeSave(w)
        \/ MergeRelink(w)
        \/ MergeDelete(w)
        \/ MergeAbort(w)
        \/ StartGet(w)
        \/ StartClose(w)
        \/ CloseSave(w)
        \/ StartUpdate(w)
        \/ UpdSave(w)
        \/ UpdItem(w)
        \/ UpdDelete(w)

Spec == Init /\ [][Next]_vars

\* The tables of a returning user: u1 added an item, closed that cart and
\* added an item again, so u1 has the abandoned cart 1 and the active cart 2.
ClosedTables ==
    [carts |-> {[id |-> 1, user_id |-> "u1", session_key |-> None,
                 status |-> "abandoned"],
                [id |-> 2, user_id |-> "u1", session_key |-> None,
                 status |-> "active"]},
     items |-> {[id |-> 1, cart |-> 1, product_id |-> "p1", quantity |-> 1,
                 price_at_addition |-> ProductPrice],
                [id |-> 2, cart |-> 2, product_id |-> "p1", quantity |-> 2,
                 price_at_addition |-> ProductPrice]},
     nextCart |-> 3, nextItem |-> 3, sole |-> {1, 2}]

\* No request in progress on the tables of the returning user.
Returning ==
    /\ carts = ClosedTables.carts
    /\ items = ClosedTables.items
    /\ nextCart = ClosedTables.nextCart
    /\ nextItem = ClosedTables.nextItem
    /\ sole = ClosedTables.sole
    /\ pc = [w \in Workers |-> "idle"]
    /\ req = [w \in Workers |-> BlankReq]
    /\ result = [w \in Workers |-> None]
    /\ pre = [w \in Workers |-> NoPre]
    /\ ops = 0
    /\ Aside

\* The service's requests on the tables of the returning user.
ReturnSpec == Returning /\ [][Next]_vars

\* Where the pricing and lookup specifications begin.
Rest == Quiet /\ Aside

\* The total of one cart over the requests that render it.
PricingNext ==
    \/ AddToNewCart
    \/ AddToStoredCart
    \/ PatchMoney
    \/ Retrieve
PricingSpec == Rest /\ [][PricingNext]_vars

\* The lookups of the product and user services.
LookupNext ==
    \/ StartProductCheck
    \/ Attempt
    \/ UserExists
    \/ StockChange
LookupSpec == Rest /\ [][LookupNext]_vars

\* ------------------------------------------------------------------ claims

Active(c) == c.status = "active"
CartIds(cs) == {c.id : c \in cs}

\* The request of worker w has been answered and no other worker has
\* written the tables since it began.
DoneAlone(w, op) == pc[w] = "done" /\ req[w].op = op /\ pre[w].ok

\* C1: two successive successful add-item requests for product p with
\* quantities q1 and q2, nothing else writing p's row in between, leave
\* exactly one row for p in the cart, with quantity q1 + q2.  (A row in
\* `sole` was created by one add-item with the quantity it holds.)
C1_AddTwiceSums ==
    \A w \in Workers :
        (DoneAlone(w, "add") /\ result[w] = "ok") =>
            \A first \in RowsFor(pre[w].items, req[w].cart.id, req[w].product) :
                first.id \in pre[w].sole =>
                    LET now == RowsFor(items, req[w].cart.id, req[w].product)
                    IN  /\ Cardinality(now) = 1
                        /\ \A i \in now :
                             i.quantity = first.quantity + req[w].quantity

\* C2: at most one active cart per user id in every state, and every
\* get_user_cart call returns, when it returns, that one cart: concurrent
\* calls that find no cart converge on the cart one of them creates.
UserCartsUnique ==
    \A c1 \in carts : \A c2 \in carts :
        (c1.user_id # None /\ c1.user_id = c2.user_id /\ Active(c1) /\ Active(c2))
            => c1.id = c2.id
ReturnsUserCart(w) ==
    /\ req'[w].user # None
    /\ req'[w].op \in {"add", "merge"}
    /\ req'[w].cart # NoCart
    /\ req'[w].cart # req[w].cart
C2_OneActiveCartPerUser ==
    [][/\ UserCartsUnique'
       /\ \A w \in Workers :
            ReturnsUserCart(w) =>
                ActiveCartsFor(carts', req'[w].user, None) = {req'[w].cart}]_vars

\* C2 witness: two get_user_cart calls for one user raced; one created the
\* cart, the other's create was rejected and it returned the same cart.
C2_Witness ==
    \E w1 \in Workers : \E w2 \in Workers \ {w1} :
        /\ req[w1].user # None
        /\ req[w1].user = req[w2].user
        /\ req[w1].cart_created
        /\ req[w2].cart_conflict
        /\ req[w2].cart = req[w1].cart

\* C3: get_session_cart calls for one session key that run concurrently
\* return the same single cart: no two of them hold different stored carts.
C3_SessionCallsConverge ==
    \A w1 \in Workers : \A w2 \in Workers :
        (/\ req[w1].op = "add" /\ req[w2].op = "add"
         /\ req[w1].user = None /\ req[w2].user = None
         /\ req[w1].session = req[w2].session
         /\ req[w1].cart \in carts /\ req[w2].cart \in carts)
        => req[w1].cart = req[w2].cart

\* C4: after a merge of the active session cart S into the user's active
\* cart T that ran to its end with no other writer, T holds for every
\* product the quantity it held plus the quantity S held, in at most one
\* row, and S and its rows are gone.
C4_MergeSumsQuantities ==
    \A w \in Workers :
        (DoneAlone(w, "merge") /\ result[w] = "ok" /\ req[w].scart.user_id = None)
        => LET T == req[w].cart.id
               S == req[w].scart.id
           IN  /\ \A p \in Products :
                    /\ Qty(items, T, p) =
                           Qty(pre[w].items, T, p) + Qty(pre[w].items, S, p)
                    /\ Cardinality(RowsFor(items, T, p)) <= 1
               /\ S \notin CartIds(carts)
               /\ ItemsOf(items, S) = {}

\* C4 witness: such a merge, where one product was in both carts and another
\* in the session cart alone.
C4_Witness ==
    \E w \in Workers :
        /\ DoneAlone(w, "merge") /\ result[w] = "ok"
        /\ req[w].scart.user_id = None
        /\ \E p \in Products :
             /\ Qty(pre[w].items, req[w].cart.id, p) > 0
             /\ Qty(pre[w].items, req[w].scart.id, p) > 0
        /\ \E p \in Products :
             /\ Qty(pre[w].items, req[w].cart.id, p) = 0
             /\ Qty(pre[w].items, req[w].scart.id, p) > 0

\* No active cart carries session key k (a requester without a key has none).
NoSessionCartIn(cs, k) ==
    k = None \/ \A c \in cs : ~(c.session_key = k /\ Active(c))

\* C5 as stated: when no active cart exists for the requester's session key,
\* merge-on-login creates no cart, deletes no cart and changes no cart and
\* no item.
C5_MergeWithoutSessionCartIsNoOp ==
    \A w \in Workers :
        (DoneAlone(w, "merge") /\ NoSessionCartIn(pre[w].carts, req[w].session))
        => carts = pre[w].carts /\ items = pre[w].items

\* C5 amended: when no active cart exists for the requester's session key,
\* merge-on-login deletes no cart and changes no cart and no item; the one
\* thing it may write is a new, empty, active cart of the user, and it does
\* so only when the request carries a session key and the user had no
\* active cart.
C5_MergeWithoutSessionCartKeepsCarts ==
    \A w \in Workers :
        (DoneAlone(w, "merge") /\ NoSessionCartIn(pre[w].carts, req[w].session))
        => /\ items = pre[w].items
           /\ pre[w].carts \subseteq carts
           /\ \A c \in carts \ pre[w].carts :
                /\ c = [id |-> c.id, user_id |-> req[w].user,
                        session_key |-> None, status |-> "active"]
                /\ req[w].user # None
                /\ req[w].session # None
                /\ ActiveCartsFor(pre[w].carts, req[w].user, None) = {}
           /\ Cardinality(carts \ pre[w].carts) <= 1

\* C5 witness: a merge-on-login with a session key that no active cart
\* carries, by a user who has an active cart.
C5_Witness ==
    \E w \in Workers :
        /\ DoneAlone(w, "merge")
        /\ req[w].session # None
        /\ NoSessionCartIn(pre[w].carts, req[w].session)
        /\ result[w] = "NoSessionCart"
        /\ ActiveCartsFor(pre[w].carts, req[w].user, None) # {}

\* Worker w takes this step.
StepOf(w) == pc'[w] # pc[w] \/ req'[w] # req[w]

\* C6: an add-item request with quantity 0 or negative is answered
\* InvalidInput and writes nothing: no cart and no item is created or
\* changed.
C6_BadQuantityRejected ==
    [][\A w \in Workers :
         (StepOf(w) /\ req'[w].op = "add" /\ req'[w].quantity < 1)
         => /\ pc'[w] = "done"
            /\ result'[w] = "InvalidInput"
            /\ carts' = carts
            /\ items' = items]_vars

\* C6 witness: an add-item request with quantity 0 has been rejected.
C6_Witness ==
    \E w \in Workers :
        /\ pc[w] = "done" /\ req[w].op = "add" /\ req[w].quantity = 0
        /\ result[w] = "InvalidInput"

\* get_object has handed the cart to the handler of worker w.
Admitted(w) ==
    \/ req[w].op = "get" /\ pc[w] = "done" /\ result[w] = "ok"
    \/ req[w].op = "close" /\ pc[w] = "close_save"
    \/ req[w].op = "update" /\ pc[w] = "upd_save"

\* C7: get/update/close of a cart by id goes ahead only for an authenticated
\* user whose id is the cart's user id, or an anonymous requester holding a
\* session key equal to the cart's session key.
C7_OnlyOwnerAdmitted ==
    \A w \in Workers :
        Admitted(w) =>
            \/ req[w].user # None /\ req[w].cart.user_id = req[w].user
            \/ /\ req[w].user = None
               /\ req[w].session # None
               /\ req[w].cart.session_key = req[w].session

\* C8: every active cart has exactly one of user id and session key set.
C8_ExactlyOneOwner ==
    \A c \in carts :
        Active(c) => ((c.user_id = None) # (c.session_key = None))

\* C9: no cart holds two items with the same product id, in every state of
\* every interleaving of add-item, cart update and merge.
C9_OneRowPerProduct ==
    \A c \in CartIds(carts) \cup {i.cart : i \in items} : \A p \in Products :
        Cardinality(RowsFor(items, c, p)) <= 1

\* C9 witness: two add-item requests for one product of one cart raced; one
\* created the row and the other's insert was rejected.
C9_Witness ==
    \E w1 \in Workers : \E w2 \in Workers \ {w1} :
        /\ req[w1].op = "add" /\ req[w2].op = "add"
        /\ req[w1].cart.id = req[w2].cart.id
        /\ req[w1].product = req[w2].product
        /\ pc[w1] = "done" /\ req[w1].created
        /\ pc[w2] = "uoc_reget"

\* C10: a merge that failed leaves no item of the session cart whose
\* quantity has been added to the user's cart while the item is still in
\* the session cart.
C10_FailedMergeNotPartial ==
    \A w \in Workers :
        (pc[w] = "done" /\ req[w].op = "merge" /\ result[w] = "IntegrityError"
         /\ req[w].scart # NoCart)
        => \A i \in items : ~(i.id \in req[w].added /\ i.cart = req[w].scart.id)

\* Workers w1 and w2 served merge-on-login for the same user and session and
\* merged the same session cart S into the same user cart T.
SameMerge(w1, w2) ==
    /\ w1 # w2
    /\ pc[w1] = "done" /\ pc[w2] = "done"
    /\ req[w1].op = "merge" /\ req[w2].op = "merge"
    /\ req[w1].user = req[w2].user /\ req[w1].session = req[w2].session
    /\ req[w1].scart # NoCart /\ req[w1].scart.user_id = None
    /\ req[w1].scart.id = req[w2].scart.id
    /\ req[w1].cart.id = req[w2].cart.id

\* T holds, for every product, what T and S held in the tables `was`.
MergedFrom(was, T, S) ==
    \A p \in Products :
        Qty(items, T, p) = Qty(was.items, T, p) + Qty(was.items, S, p)

\* C11: a merge of S into T, running alone, was interrupted inside
\* merge_carts, and a second merge-on-login of the same user and session
\* then began on the tables it left and ran to its end with no other writer:
\* T holds for every product what T held before the first merge plus what S
\* held, nothing counted twice.
C11_RetriedMergeCountsOnce ==
    \A w1 \in Workers : \A w2 \in Workers :
        (/\ SameMerge(w1, w2)
         /\ result[w1] = "Interrupted"
         /\ req[w1].left # NoStart
         /\ req[w2].start = req[w1].left
         /\ result[w2] = "ok" /\ pre[w2].ok)
        => MergedFrom(req[w1].start, req[w1].cart.id, req[w1].scart.id)

\* C12: two merge-on-login requests of the same user and session ran
\* concurrently (both began on the same tables) and both succeeded: T holds
\* for every product what T held plus what S held.
C12_ConcurrentMergesCountOnce ==
    \A w1 \in Workers : \A w2 \in Workers :
        (/\ SameMerge(w1, w2)
         /\ result[w1] = "ok" /\ result[w2] = "ok"
         /\ req[w1].start = req[w2].start)
        => MergedFrom(req[w1].start, req[w1].cart.id, req[w1].scart.id)

\* C13: two add-item requests for the same cart and product ran concurrently
\* (both began on the same tables) and both succeeded: the cart holds one
\* row for the product, with the quantity it held plus both quantities.
C13_ConcurrentAddsSum ==
    \A w1 \in Workers : \A w2 \in Workers :
        (/\ w1 # w2
         /\ pc[w1] = "done" /\ pc[w2] = "done"
         /\ req[w1].op = "add" /\ req[w2].op = "add"
         /\ result[w1] = "ok" /\ result[w2] = "ok"
         /\ req[w1].cart.id = req[w2].cart.id
         /\ req[w1].product = req[w2].product
         /\ req[w1].start = req[w2].start)
        => LET now == RowsFor(items, req[w1].cart.id, req[w1].product)
           IN  /\ Cardinality(now) = 1
               /\ \A i \in now :
                    i.quantity =
                        Qty(req[w1].start.items, req[w1].cart.id, req[w1].product)
                            + req[w1].quantity + req[w2].quantity

\* C14: an add-item request that failed on the product lookup (not found,
\* not enough stock, service unreachable) has written nothing: no cart and
\* no item was created or changed.
C14_FailedLookupWritesNothing ==
    \A w \in Workers :
        (DoneAlone(w, "add") /\ result[w] = "ProductUnavailable")
        => carts = pre[w].carts /\ items = pre[w].items

\* C16: once a close request for a cart has succeeded, the cart's status is
\* abandoned (so that no get-or-create of an active cart returns it).
C16_ClosedStaysAbandoned ==
    \A w \in Workers :
        (pc[w] = "done" /\ req[w].op = "close" /\ result[w] = "ok")
        => \A c \in carts : c.id = req[w].target => c.status = "abandoned"

\* The product ids and quantities an item spec list names.
SpecProducts(l) == {l[n].product_id : n \in 1..Len(l)}

\* C20: after a successful update that carried the item specs L, made with
\* no other writer, the cart holds exactly the products L names, one row
\* each with a quantity L gives, and the items of every other cart are as
\* they were.
C20_ReplaceLeavesExactlyTheSpecs ==
    \A w \in Workers :
        (DoneAlone(w, "update") /\ result[w] = "ok" /\ req[w].data.has_items)
        => LET L == req[w].data.items
               id == req[w].cart.id
           IN  /\ {i.product_id : i \in ItemsOf(items, id)} = SpecProducts(L)
               /\ \A p \in SpecProducts(L) :
                    /\ Cardinality(RowsFor(items, id, p)) = 1
                    /\ \A i \in RowsFor(items, id, p) :
                         \E n \in 1..Len(L) :
                             /\ L[n].product_id = p
                             /\ L[n].quantity = i.quantity
               /\ \A i \in items \cup pre[w].items :
                    i.cart # id => (i \in items /\ i \in pre[w].items)

\* C20 witness: such an update deleted a row whose product L does not name
\* and gave another row the quantity L names for it.
C20_Witness ==
    \E w \in Workers :
        /\ DoneAlone(w, "update") /\ result[w] = "ok" /\ req[w].data.has_items
        /\ \E i \in ItemsOf(pre[w].items, req[w].cart.id) :
             i.product_id \notin SpecProducts(req[w].data.items)
        /\ \E i \in ItemsOf(pre[w].items, req[w].cart.id) :
             /\ i.product_id \in SpecProducts(req[w].data.items)
             /\ i \notin items

\* The sum over a cart's rows of quantity * price_at_addition.
RECURSIVE LineSum(_)
LineSum(lines) ==
    IF lines = {} THEN 0
    ELSE LET l == CHOOSE x \in lines : TRUE
         IN  l.quantity * l.price_at_addition.value + LineSum(lines \ {l})

\* C15: the total a response carries is
\* max(0, subtotal + tax_amount + shipping_cost - discount_amount) of the
\* cart as stored, 0 when the discount exceeds the rest.
C15_TotalIsClampedSum ==
    priced.total # NoTotal =>
        LET sum == LineSum(priced.lines) + priced.tax_amount
                     + priced.shipping_cost - priced.discount_amount
        IN  /\ priced.total # TypeError
            /\ priced.total.value = IF sum > 0 THEN sum ELSE 0

\* C17: a product lookup that failed on a timeout or a connection error and
\* a lookup of a product the service does not list give different values, and
\* add-item reports them as different failures.
C17_UnreachableIsNotMissing ==
    (/\ call.pc = "done" /\ call.kind = "product" /\ prev.kind = "product"
     /\ call.cause \in {"timeout", "unreachable"}
     /\ prev.cause = "missing")
    => call.value # prev.value /\ call.answer # prev.answer

\* C18: the product check of an add-item request for quantity q passes only
\* if the product service, at the time of the request, lists the product
\* with a stock of at least q.
C18_SuccessNeedsCurrentStock ==
    (call.pc = "done" /\ call.kind = "product" /\ call.answer = "ok")
    => call.actual.listed /\ call.actual.stock >= call.quantity

\* C19: a finished lookup made at most MAX_RETRIES attempts, gave up on a
\* timeout or a connection error only at its last attempt, and raised
\* nothing.
C19_LookupRetriesAndReturns ==
    call.pc = "done" =>
        /\ call.attempts <= MAX_RETRIES
        /\ call.cause \in {"timeout", "unreachable"}
               => call.attempts = MAX_RETRIES
        /\ call.value # RetryError

\* C21: an update (owner fields or item specs) of a cart whose status is not
\* active, made with no other writer, is answered with an error and leaves
\* the cart and its items as they were.
C21_ClosedCartNotMutable ==
    \A w \in Workers :
        (/\ DoneAlone(w, "update")
         /\ \E c \in pre[w].carts : c.id = req[w].target /\ ~Active(c))
        => /\ result[w] # "ok"
           /\ \A c \in pre[w].carts : c.id = req[w].target => c \in carts
           /\ ItemsOf(items, req[w].target)
                  = ItemsOf(pre[w].items, req[w].target)

\* C23: no step takes a stored cart whose status is not active back to
\* active.
C23_StatusNeverReturnsToActive ==
    [][\A c \in carts : \A d \in carts' :
         (d.id = c.id /\ ~Active(c)) => ~Active(d)]_vars

\* C22: a close of an active cart by its owner, made with no other writer,
\* succeeds: the cart is stored with status abandoned and its items are the
\* ones it had, also when the owner already has an abandoned cart.
C22_CloseAlwaysSucceeds ==
    \A w \in Workers :
        (/\ DoneAlone(w, "close")
         /\ req[w].user # None \/ req[w].session # None
         /\ \E c \in pre[w].carts :
              /\ c.id = req[w].target
              /\ Active(c)
              /\ Owns(c, req[w].user, req[w].session))
        => /\ result[w] = "ok"
           /\ \E c \in carts : c.id = req[w].target /\ c.status = "abandoned"
           /\ ItemsOf(items, req[w].target)
                  = ItemsOf(pre[w].items, req[w].target)

====
